---- MODULE Spec2Model ----
(***************************************************************************)
(* nsf2wav: the command-line converter of ADM228/nsfplay.  The model       *)
(* follows main() and its helpers statement by statement: option parsing,  *)
(* track and length resolution, the loop-detection skip phase, the engine  *)
(* reconfiguration, the WAV header and the chunked render loop.            *)
(*                                                                         *)
(* Numbers.  A double that holds a sample rate is a rational with the      *)
(* fixed denominator RateDen: the field samplerate holds its numerator.    *)
(* A uint64_t bit mask is the set of its set bit positions (0..63).  A     *)
(* wide unsigned integer in the header arithmetic is a little-endian       *)
(* sequence of 16-bit limbs, so that the 32-bit and 64-bit widths of the   *)
(* C++ types are kept.                                                     *)
(***************************************************************************)
EXTENDS Integers, Sequences, FiniteSets, TLC

----------------------------------------------------------------------------
(* Program constants *)

kFramesToBuffer == 4096
kMillisPerSecond == 1000
EXIT_SUCCESS == 0
EXIT_FAILURE == 1
EX_USAGE == 64
FullVolume == 128
SizeofInt16 == 2
MaskBits == 64
InvertBits == 32
IntBits == 32
VolChannels == 32

(* Bounds of the model *)

RateDen == 2
MaxDirectives == 3
MaxFlags == 2
MaxSong == 2

----------------------------------------------------------------------------
(* Small helpers *)

Min(a, b) == IF a < b THEN a ELSE b

RECURSIVE SeqsUpTo(_, _)
SeqsUpTo(S, n) ==
    IF n = 0 THEN {<<>>}
    ELSE LET shorter == SeqsUpTo(S, n - 1)
         IN  shorter \cup {Append(s, x) : s \in {t \in shorter : Len(t) = n - 1}, x \in S}

----------------------------------------------------------------------------
(* Bit masks: options.mask and options.mute are uint64_t *)

\* (uint64_t)(1 << i) where 1 is an int: the shift is done in 32-bit signed
\* arithmetic and the result is sign-extended to 64 bits, so 1<<31 (INT_MIN)
\* becomes 0xFFFFFFFF80000000.
ShiftOneInt(i) ==
    IF i < IntBits - 1 THEN {i} ELSE (IntBits - 1)..(MaskBits - 1)

\* case 'm': options.mask |= 1<<std::stoi(optarg)
MaskSelect(mask, i) == mask \cup ShiftOneInt(i)

\* a variant of MaskInvert that complements all 64 bits (mask = ~mask)
MaskInvert_AllBits(mask) == (0..(MaskBits - 1)) \ mask

\* case 'r': options.mask ^= 0xFFFFFFFF
MaskInvert(mask) ==
    (mask \ (0..(InvertBits - 1))) \cup ((0..(InvertBits - 1)) \ mask)

\* a variant of MaskCommit that forgets options.mask = 0
MaskCommit_KeepMask(o) == [o EXCEPT !.mute = o.mask]

\* case 'u': options.mute = options.mask; options.mask = 0;
MaskCommit(o) == [o EXCEPT !.mute = o.mask, !.mask = {}]

\* for (i < 32) { uint64_t mask = 1<<i; VOL = (options.mute & mask) ? 0 : 128 }
ChannelVolume(mute, i) ==
    IF mute \cap ShiftOneInt(i) # {} THEN 0 ELSE FullVolume

----------------------------------------------------------------------------
(* Wide unsigned arithmetic on little-endian sequences of 16-bit limbs *)

LimbBase == 65536

RECURSIVE ToLimbs(_, _)
ToLimbs(n, w) ==
    IF w = 0 THEN <<>> ELSE <<n % LimbBase>> \o ToLimbs(n \div LimbBase, w - 1)

\* x * k + c, kept to the width of x (the carry out of the top limb is lost)
RECURSIVE MulAdd(_, _, _)
MulAdd(x, k, c) ==
    IF x = <<>> THEN <<>>
    ELSE LET t == x[1] * k + c
         IN  <<t % LimbBase>> \o MulAdd(Tail(x), k, t \div LimbBase)

\* conversion to a narrower unsigned type keeps the low limbs
Truncate(x, w) == SubSeq(x, 1, w)

----------------------------------------------------------------------------
(* Little-endian packing *)

\* pack_uint16le: d[0] = (uint8_t)n, d[1] = (uint8_t)(n >> 8)
pack_uint16le(n) == <<n % 256, (n \div 256) % 256>>

\* pack_uint32le on a 32-bit value held as two 16-bit limbs
pack_uint32le(x) ==
    <<x[1] % 256, (x[1] \div 256) % 256, x[2] % 256, (x[2] \div 256) % 256>>

----------------------------------------------------------------------------
(* write_wav_header *)

RECURSIVE Concat(_)
Concat(ss) == IF ss = <<>> THEN <<>> ELSE Head(ss) \o Concat(Tail(ss))

\* unsigned int dataSize = totalFrames * sizeof(int16_t) * options.channels;
\* the product is formed in 64 bits and converted to the 32-bit unsigned int
DataSize(totalFrames, channels) ==
    Truncate(MulAdd(MulAdd(totalFrames, SizeofInt16, 0), channels, 0), 2)

\* the thirteen items handed to fwrite, in order; totalFrames is a uint64_t
\* (four limbs), samplerate the numerator of the double
WavHeaderFields(totalFrames, channels, samplerate) ==
    LET dataSize == DataSize(totalFrames, channels)
    IN  << <<82, 73, 70, 70>>,
           pack_uint32le(MulAdd(dataSize, 1, 44 - 8)),
           <<87, 65, 86, 69>>,
           <<102, 109, 116, 32>>,
           pack_uint32le(ToLimbs(16, 2)),
           pack_uint16le(1),
           pack_uint16le(channels),
           pack_uint32le(ToLimbs(samplerate \div RateDen, 2)),
           pack_uint32le(ToLimbs((samplerate * channels * SizeofInt16) \div RateDen, 2)),
           pack_uint16le(channels * SizeofInt16),
           pack_uint16le(SizeofInt16 * 8),
           <<100, 97, 116, 97>>,
           pack_uint32le(dataSize) >>

\* failAt = 0: every fwrite writes its item; failAt = k: the k-th fwrite
\* comes back short and the function returns 0 with the earlier items written
write_wav_header(totalFrames, channels, samplerate, failAt) ==
    LET fields == WavHeaderFields(totalFrames, channels, samplerate)
    IN  IF failAt = 0
        THEN [bytes |-> Concat(fields), ret |-> 1]
        ELSE [bytes |-> Concat(SubSeq(fields, 1, failAt - 1)), ret |-> 0]

\* write_frames: fwrite(d, sizeof(int16_t) * channels, frameCount, f) wrote
\* `written` items; the result is whether that is all of them
write_frames(written, frameCount, channels) ==
    [bytes |-> written * SizeofInt16 * channels,
     ret   |-> IF written = frameCount THEN 1 ELSE 0]

----------------------------------------------------------------------------
(* Resolution of the frame count *)

\* frames  = (uint64_t)length_ms * samplerate;   double product, truncated
\* frames += (uint64_t)fade_ms * samplerate;     double sum, truncated
\* frames /= kMillisPerSecond;                   integer division
NaiveFrames(length_ms, fade_ms, samplerate) ==
    LET f1 == (length_ms * samplerate) \div RateDen
        f2 == (f1 * RateDen + fade_ms * samplerate) \div RateDen
    IN  f2 \div kMillisPerSecond

\* a variant of DetectedFrames that divides the fade time by
\* kMillisPerSecond in integers before it multiplies by the sample rate
DetectedFrames_FadeInSeconds(total_render, fadeTime, samplerate) ==
    total_render + ((fadeTime \div kMillisPerSecond) * samplerate) \div RateDen

\* frames = player.total_render
\*          + ((uint64_t)nsf.GetFadeTime() * samplerate / kMillisPerSecond);
\* one double expression, truncated when stored into the uint64_t
DetectedFrames(total_render, fadeTime, samplerate) ==
    (total_render * RateDen * kMillisPerSecond + fadeTime * samplerate)
        \div (RateDen * kMillisPerSecond)

\* std::ceil((player.total_render
\*            + ((uint64_t)nsf.GetFadeTime() / kMillisPerSecond)) / samplerate)
StopSec(total_render, fadeTime, samplerate) ==
    LET n == (total_render + (fadeTime \div kMillisPerSecond)) * RateDen
    IN  (n + samplerate - 1) \div samplerate

----------------------------------------------------------------------------
(* Inputs: command lines, file contents, engine and sink behaviour *)

\* channel indices given to --mask
ChannelChoices == {0, 1, 3, 31}

\* nsf.default_playtime and nsf.default_fadetime, and the values of -l and -f
DefaultLengths == {1}
DefaultFades == {15}
LengthChoices == {1001}
FadeChoices == {999}

\* numerators of the sample rate: xgm::DEFAULT_RATE is taken as 4000 Hz, and
\* -s gives 62.5 Hz
DefaultRates == {8000}
RateChoices == {125}

\* per-track and source-level times of a loaded file; -1 is "not present"
EntryTimeChoices == {-1, 2000}
EntryFadeChoices == {-1, 500}
GlobalTimeChoices == {-1, 1000}
GlobalFadeChoices == {-1, 250}

\* results of nsf.GetFadeTime()
FadeTimeChoices == {15, 1500}

\* which fwrite of write_wav_header comes back short (0: none)
HeaderFailChoices == {0, 1, 13}

\* input files: whether LoadFile accepts the file and, if so, the metadata it
\* leaves in the NSF object; entry is nsfe_entry[nsfe_i] of the selected track
NoEntry == [time |-> -1, fade |-> -1]

\* the entries of the tracks of a playlist source: none, or both times
PlaylistEntries ==
    {NoEntry} \cup {[time |-> et, fade |-> ef] :
                       et \in EntryTimeChoices \ {-1},
                       ef \in EntryFadeChoices \ {-1}}

Files ==
    {[loadable |-> FALSE, playlist_mode |-> FALSE, song |-> 0,
      time_in_ms |-> -1, fade_in_ms |-> -1, entry |-> NoEntry, fadeTime |-> 0]}
    \cup
    {[loadable |-> TRUE, playlist_mode |-> TRUE, song |-> sg, time_in_ms |-> t,
      fade_in_ms |-> f, entry |-> e, fadeTime |-> ft] :
        sg \in 0..(MaxSong - 1), t \in GlobalTimeChoices,
        f \in GlobalFadeChoices, e \in PlaylistEntries,
        ft \in FadeTimeChoices}
    \cup
    {[loadable |-> TRUE, playlist_mode |-> FALSE, song |-> 0, time_in_ms |-> t,
      fade_in_ms |-> f, entry |-> [time |-> et, fade |-> ef], fadeTime |-> ft] :
        t \in GlobalTimeChoices, f \in GlobalFadeChoices,
        et \in EntryTimeChoices, ef \in EntryFadeChoices,
        ft \in FadeTimeChoices}

\* the files given with command lines of channel directives
MaskFiles ==
    {f \in Files : ~f.loadable \/ (f.time_in_ms = -1 /\ f.fade_in_ms = -1
                                     /\ f.entry = NoEntry /\ f.song = 0
                                     /\ f.fadeTime = 15)}

Tok(o, a) == [op |-> o, arg |-> a]

MaskTokens ==
    {Tok("m", i) : i \in ChannelChoices} \cup {Tok("r", 0), Tok("u", 0)}

FlagTokens ==
    {Tok("y", 0), Tok("w", 0), Tok("q", 0), Tok("h", 0), Tok("?", 0), Tok("c", 2)}
    \cup {Tok("t", t) : t \in {0, MaxSong}}
    \cup {Tok("l", x) : x \in LengthChoices}
    \cup {Tok("f", x) : x \in FadeChoices}
    \cup {Tok("s", x) : x \in RateChoices}

\* command lines of the two specifications
FlagArgvs == SeqsUpTo(FlagTokens, MaxFlags)
MaskArgvs ==
    SeqsUpTo(MaskTokens, MaxDirectives) \cup {<<Tok("h", 0)>>, <<Tok("?", 0)>>}

----------------------------------------------------------------------------
(* State *)

VARIABLES
    pc,           \* position in main()
    rest,         \* the options getopt_long has not returned yet
    argc,         \* number of positional arguments left after the options
    file,         \* what the input file holds
    options,      \* Nsf2WavOptions
    nsf,          \* xgm::NSF
    config,       \* xgm::NSFPlayerConfig: the settings assigned so far
    player,       \* xgm::NSFPlayer
    songIndex,    \* int i
    frames,       \* uint64_t frames
    framesbackup, \* uint64_t framesbackup
    out,          \* FILE *f and what has been written to it
    io,           \* calls made so far to the engine and the sink
    status        \* the process exit code, once pc = "exit"

vars == <<pc, rest, argc, file, options, nsf, config, player, songIndex, frames,
          framesbackup, out, io, status>>

Put(f, k, v) == [x \in DOMAIN f \cup {k} |-> IF x = k THEN v ELSE f[x]]

\* Nsf2WavOptions(nsf) and the declarations at the top of main()
InitOf(argvs, files, lengths, fades, rates) ==
    /\ pc = "parse"
    /\ rest \in argvs
    /\ argc \in 0..3
    /\ file \in files
    /\ \E l \in lengths, f \in fades, r \in rates :
          options = [length_ms |-> l, fade_ms |-> f, channels |-> 1,
                     samplerate |-> r, track |-> 1, quiet |-> FALSE,
                     mask |-> {}, mute |-> {}, trigger |-> FALSE,
                     lengthForce |-> FALSE]
    /\ nsf = [loaded |-> FALSE, playlist_mode |-> FALSE, song |-> 0,
              time_in_ms |-> -1, fade_in_ms |-> -1,
              entry |-> NoEntry, fadeTime |-> 0, loop_num |-> 0]
    /\ config = <<>>
    /\ player = [loaded |-> FALSE, configs |-> 0, resets |-> 0,
                 fading |-> FALSE, playtime_detected |-> FALSE,
                 total_render |-> 0]
    /\ songIndex = 0
    /\ frames = 0
    /\ framesbackup = 0
    /\ out = [state |-> "none", header |-> <<>>, payload |-> 0]
    /\ io = [skips |-> 0, skipped |-> 0, renders |-> 0, requested |-> 0,
             headers |-> 0, declared |-> 0,
             failed |-> FALSE, afterFail |-> FALSE]
    /\ status = -1

Init == InitOf(FlagArgvs, Files, DefaultLengths, DefaultFades, DefaultRates)

InitMask == InitOf(MaskArgvs, MaskFiles, DefaultLengths, DefaultFades, DefaultRates)

Exit(code) ==
    /\ pc' = "exit"
    /\ status' = code

----------------------------------------------------------------------------
(* ParseOptions *)

\* the switch of ParseOptions, for the cases that return to the loop
ApplyOption(o, tok) ==
    CASE tok.op = "q" -> [o EXCEPT !.quiet = TRUE]
      [] tok.op = "l" -> [o EXCEPT !.length_ms = tok.arg]
      [] tok.op = "t" -> [o EXCEPT !.track = tok.arg]
      [] tok.op = "y" -> [o EXCEPT !.lengthForce = TRUE]
      [] tok.op = "f" -> [o EXCEPT !.fade_ms = tok.arg]
      [] tok.op = "s" -> [o EXCEPT !.samplerate = tok.arg]
      [] tok.op = "c" -> [o EXCEPT !.channels = tok.arg]
      [] tok.op = "m" -> [o EXCEPT !.mask = MaskSelect(o.mask, tok.arg)]
      [] tok.op = "r" -> [o EXCEPT !.mask = MaskInvert(o.mask)]
      [] tok.op = "w" -> [o EXCEPT !.trigger = TRUE]
      [] tok.op = "u" -> MaskCommit(o)

\* one iteration of the getopt_long loop
ParseOption ==
    /\ pc = "parse"
    /\ rest # <<>>
    /\ rest' = Tail(rest)
    /\ IF Head(rest).op = "h"
       THEN Exit(EXIT_SUCCESS) /\ UNCHANGED options
       ELSE IF Head(rest).op = "?"
       THEN Exit(EX_USAGE) /\ UNCHANGED options
       ELSE /\ options' = ApplyOption(options, Head(rest))
            /\ UNCHANGED <<pc, status>>
    /\ UNCHANGED <<argc, file, nsf, config, player, songIndex, frames,
                   framesbackup, out, io>>

\* getopt_long returned -1; main checks the number of positional arguments
ParseEnd ==
    /\ pc = "parse"
    /\ rest = <<>>
    /\ IF argc < 1 \/ argc > 2
       THEN Exit(EX_USAGE)
       ELSE pc' = "load" /\ UNCHANGED status
    /\ UNCHANGED <<rest, argc, file, options, nsf, config, player, songIndex,
                   frames, framesbackup, out, io>>

----------------------------------------------------------------------------
(* main: loading and resolving *)

\* a variant of LoadFile that does not test the result of nsf.LoadFile
LoadFile_IgnoreFailure ==
    /\ pc = "load"
    /\ nsf' = IF file.loadable
              THEN [loaded |-> TRUE, playlist_mode |-> file.playlist_mode,
                    song |-> file.song, time_in_ms |-> file.time_in_ms,
                    fade_in_ms |-> file.fade_in_ms, entry |-> file.entry,
                    fadeTime |-> file.fadeTime, loop_num |-> 0]
              ELSE nsf
    /\ pc' = IF argc = 1 THEN "info" ELSE "track"
    /\ UNCHANGED <<rest, argc, file, options, config, player, songIndex,
                   frames, framesbackup, out, io, status>>

\* if(!nsf.LoadFile(argv[0])) return 1;
LoadFile ==
    /\ pc = "load"
    /\ IF ~file.loadable
       THEN Exit(1) /\ UNCHANGED nsf
       ELSE /\ nsf' = [loaded |-> TRUE, playlist_mode |-> file.playlist_mode,
                       song |-> file.song, time_in_ms |-> file.time_in_ms,
                       fade_in_ms |-> file.fade_in_ms, entry |-> file.entry,
                       fadeTime |-> file.fadeTime, loop_num |-> 0]
            /\ pc' = IF argc = 1 THEN "info" ELSE "track"
            /\ UNCHANGED status
    /\ UNCHANGED <<rest, argc, file, options, config, player, songIndex,
                   frames, framesbackup, out, io>>

\* if(argc == 1) { dump info; return EXIT_SUCCESS; }
DumpInfo ==
    /\ pc = "info"
    /\ Exit(EXIT_SUCCESS)
    /\ UNCHANGED <<rest, argc, file, options, nsf, config, player, songIndex,
                   frames, framesbackup, out, io>>

\* a variant of ResolveTime that tests the source-level value first
ResolveTime_GlobalFirst(playlist_mode, entryValue, globalValue, current) ==
    IF globalValue >= 0 THEN globalValue
    ELSE IF ~playlist_mode /\ entryValue >= 0 THEN entryValue
    ELSE current

\* length_ms / fade_ms after the two if-else chains (lines 310-332)
ResolveTime(playlist_mode, entryValue, globalValue, current) ==
    IF ~playlist_mode /\ entryValue >= 0 THEN entryValue
    ELSE IF globalValue >= 0 THEN globalValue
    ELSE current

\* a variant of TrackIndex that uses --track for playlists too
TrackIndex_IgnorePlaylist(playlist_mode, song, track) == track - 1

\* int i after lines 293-301, for a track that is accepted
TrackIndex(playlist_mode, song, track) ==
    IF playlist_mode THEN song ELSE track - 1

\* track selection and the per-track length and fade (lines 293-341)
ResolveTrack ==
    /\ pc = "track"
    /\ IF ~nsf.playlist_mode /\ options.track <= 0
       THEN Exit(EXIT_FAILURE) /\ UNCHANGED <<options, songIndex>>
       ELSE /\ songIndex' = TrackIndex(nsf.playlist_mode, nsf.song,
                                       options.track)
            /\ options' =
                  [options EXCEPT
                     !.length_ms = ResolveTime(nsf.playlist_mode, nsf.entry.time,
                                               nsf.time_in_ms, @),
                     !.fade_ms = ResolveTime(nsf.playlist_mode, nsf.entry.fade,
                                             nsf.fade_in_ms, @)]
            /\ pc' = "config"
            /\ UNCHANGED status
    /\ UNCHANGED <<rest, argc, file, nsf, config, player, frames,
                   framesbackup, out, io>>

\* a variant of FirstConfig that enables detection whatever lengthForce is
FirstConfig_AlwaysDetect(c, o) ==
    Put(Put(Put(Put(Put(Put(c, "MASTER_VOLUME", 256),
        "APU2_OPTION5", 0), "APU2_OPTION7", 0),
        "AUTO_DETECT", 1), "LOOP_NUM", 2), "DETECT_INT", 1000)

\* the settings assigned before the first SetConfig (lines 343-352)
FirstConfig(c, o) ==
    LET c0 == Put(Put(Put(c, "MASTER_VOLUME", 256),
                      "APU2_OPTION5", 0), "APU2_OPTION7", 0)
    IN  IF ~o.lengthForce
        THEN Put(Put(Put(c0, "AUTO_DETECT", 1), "LOOP_NUM", 2),
                 "DETECT_INT", 1000)
        ELSE c0

\* the first configuration (lines 343-355)
ConfigureDetect ==
    /\ pc = "config"
    /\ config' = FirstConfig(config, options)
    /\ nsf' = IF ~options.lengthForce THEN [nsf EXCEPT !.loop_num = 2] ELSE nsf
    /\ player' = [player EXCEPT !.configs = @ + 1]
    /\ pc' = "pload"
    /\ UNCHANGED <<rest, argc, file, options, songIndex, frames,
                   framesbackup, out, io, status>>

\* NSFPlayer::Reset as the caller sees it
PlayerReset(p) ==
    [p EXCEPT !.resets = @ + 1, !.fading = FALSE,
              !.playtime_detected = FALSE, !.total_render = 0]

\* player.Load, the session setup and the naive frame count (lines 357-372)
PlayerLoad ==
    /\ pc = "pload"
    /\ \E ok \in BOOLEAN :
          IF ~ok
          THEN Exit(EXIT_FAILURE) /\ UNCHANGED <<player, frames, framesbackup>>
          ELSE /\ player' = PlayerReset([player EXCEPT !.loaded = TRUE])
               /\ frames' = NaiveFrames(options.length_ms, options.fade_ms,
                                        options.samplerate)
               /\ IF ~options.lengthForce
                  THEN pc' = "skip" /\ framesbackup' = frames'
                  ELSE pc' = "reconf" /\ UNCHANGED framesbackup
               /\ UNCHANGED status
    /\ UNCHANGED <<rest, argc, file, options, nsf, config, songIndex, out, io>>

----------------------------------------------------------------------------
(* main: the loop-detection skip phase *)

\* what one Skip(fc) may add to player.total_render
SkipAdvance(fc) == {fc, 2 * fc}

\* NSFPlayer::Skip as the caller sees it: the observables after the call
PlayerSkip(p, advance, fading, detected) ==
    [p EXCEPT !.total_render = @ + advance,
              !.fading = fading,
              !.playtime_detected = @ \/ detected]

\* a variant of SkipStep whose loop condition is while(frames)
SkipStep_IgnoreFading ==
    /\ pc = "skip"
    /\ frames # 0
    /\ LET fc == Min(frames, kFramesToBuffer)
       IN  /\ \E advance \in SkipAdvance(fc), fading \in BOOLEAN,
                 detected \in BOOLEAN :
                  player' = PlayerSkip(player, advance, fading, detected)
           /\ frames' = frames - fc
           /\ io' = [io EXCEPT !.skips = @ + 1, !.skipped = @ + fc]
    /\ UNCHANGED <<pc, rest, argc, file, options, nsf, config, songIndex,
                   framesbackup, out, status>>

\* one iteration of while(frames && !player.fader.IsFading())
SkipStep ==
    /\ pc = "skip"
    /\ frames # 0
    /\ ~player.fading
    /\ LET fc == Min(frames, kFramesToBuffer)
       IN  /\ \E advance \in SkipAdvance(fc), fading \in BOOLEAN,
                 detected \in BOOLEAN :
                  player' = PlayerSkip(player, advance, fading, detected)
           /\ frames' = frames - fc
           /\ io' = [io EXCEPT !.skips = @ + 1, !.skipped = @ + fc]
    /\ UNCHANGED <<pc, rest, argc, file, options, nsf, config, songIndex,
                   framesbackup, out, status>>

\* a variant of ResolveFrames without "else frames = framesbackup": an
\* exhausted budget is left in frames
ResolveFrames_NoRestore(detected, total_render, fadeTime, samplerate, backup) ==
    IF detected
    THEN DetectedFrames(total_render, fadeTime, samplerate)
    ELSE 0

\* frames after the skip loop (lines 384-393)
ResolveFrames(detected, total_render, fadeTime, samplerate, backup) ==
    IF detected
    THEN DetectedFrames(total_render, fadeTime, samplerate)
    ELSE backup

\* the statements after the skip loop (lines 384-395); in trigger mode the
\* fade time is read again after nsf.fade_in_ms has been changed
DetectEnd ==
    /\ pc = "skip"
    /\ frames = 0 \/ player.fading
    /\ frames' = ResolveFrames(player.playtime_detected, player.total_render,
                               nsf.fadeTime, options.samplerate, framesbackup)
    /\ \E ft \in FadeTimeChoices :
          /\ ~(player.playtime_detected /\ options.trigger) => ft = nsf.fadeTime
          /\ nsf' = IF player.playtime_detected /\ options.trigger
                    THEN [nsf EXCEPT !.time_in_ms = @ + nsf.fadeTime,
                                     !.fade_in_ms = 0, !.fadeTime = ft]
                    ELSE nsf
          /\ LET c1 == IF player.playtime_detected
                       THEN Put(Put(config, "AUTO_DETECT", 0), "LOOP_NUM", 0)
                       ELSE config
             IN  config' = Put(c1, "STOP_SEC",
                               StopSec(player.total_render, ft,
                                       options.samplerate))
    /\ pc' = "reconf"
    /\ UNCHANGED <<rest, argc, file, options, player, songIndex,
                   framesbackup, out, io, status>>

----------------------------------------------------------------------------
(* main: the configuration of the real render pass *)

\* the table written through config.GetChannelConfig(i, "VOL")
VolumeTable(mute) == [i \in 0..(VolChannels - 1) |-> ChannelVolume(mute, i)]

\* the settings assigned for the real render pass (lines 398-414)
FinalConfig(c, o) ==
    LET c1 == Put(Put(c, "MASK", o.mask), "TRIGGER", IF o.trigger THEN 1 ELSE 0)
        c2 == IF o.trigger
              THEN Put(Put(Put(Put(Put(c1, "APU1_OPTION2", 0),
                       "APU2_OPTION4", 0), "MMC5_OPTION0", 0),
                       "N163_OPTION0", 0), "FDS_OPTION0", 96000)
              ELSE c1
    IN  Put(c2, "VOL", VolumeTable(o.mute))

\* a variant of Reconfigure without the player.Reset() of line 417
Reconfigure_NoReset ==
    /\ pc = "reconf"
    /\ config' = FinalConfig(config, options)
    /\ player' = [player EXCEPT !.configs = @ + 1]
    /\ pc' = "open"
    /\ UNCHANGED <<rest, argc, file, options, nsf, songIndex, frames,
                   framesbackup, out, io, status>>

\* lines 398-417
Reconfigure ==
    /\ pc = "reconf"
    /\ config' = FinalConfig(config, options)
    /\ player' = PlayerReset([player EXCEPT !.configs = @ + 1])
    /\ pc' = "open"
    /\ UNCHANGED <<rest, argc, file, options, nsf, songIndex, frames,
                   framesbackup, out, io, status>>

----------------------------------------------------------------------------
(* main: the output file *)

\* f = fopen(argv[1],"wb"); if(f == NULL) return 1;
OpenOutput ==
    /\ pc = "open"
    /\ \E ok \in BOOLEAN :
          IF ~ok
          THEN Exit(1) /\ UNCHANGED out
          ELSE /\ out' = [out EXCEPT !.state = "open"]
               /\ pc' = "header"
               /\ UNCHANGED status
    /\ UNCHANGED <<rest, argc, file, options, nsf, config, player, songIndex,
                   frames, framesbackup, io>>

\* a variant of WriteHeader that calls write_wav_header a second time
WriteHeader_Twice ==
    /\ pc = "header"
    /\ \E failAt \in HeaderFailChoices :
          LET r == write_wav_header(ToLimbs(frames, 4), options.channels,
                                    options.samplerate, failAt)
          IN  /\ out' = [out EXCEPT !.header = r.bytes]
              /\ io' = [io EXCEPT !.headers = @ + 1, !.declared = frames,
                                  !.failed = @ \/ (r.ret = 0)]
    /\ pc' = IF io.headers = 0 THEN "header" ELSE "render"
    /\ UNCHANGED <<rest, argc, file, options, nsf, config, player, songIndex,
                   frames, framesbackup, status>>

\* write_wav_header(f, frames, options); the result is not looked at
WriteHeader ==
    /\ pc = "header"
    /\ \E failAt \in HeaderFailChoices :
          LET r == write_wav_header(ToLimbs(frames, 4), options.channels,
                                    options.samplerate, failAt)
          IN  /\ out' = [out EXCEPT !.header = r.bytes]
              /\ io' = [io EXCEPT !.headers = @ + 1, !.declared = frames,
                                  !.failed = @ \/ (r.ret = 0)]
    /\ pc' = "render"
    /\ UNCHANGED <<rest, argc, file, options, nsf, config, player, songIndex,
                   frames, framesbackup, status>>

\* NSFPlayer::Render as the caller sees it
PlayerRender(p, fc) == [p EXCEPT !.total_render = @ + fc]

\* a variant of RenderStep that asks for all remaining frames in one call
RenderStep_NoCap ==
    /\ pc = "render"
    /\ frames # 0
    /\ LET fc == frames
       IN  /\ player' = PlayerRender(player, fc)
           /\ \E written \in {0, fc} :
                 LET w == write_frames(written, fc, options.channels)
                 IN  /\ out' = [out EXCEPT !.payload = @ + w.bytes]
                     /\ io' = [io EXCEPT !.renders = @ + 1,
                                         !.requested = @ + fc,
                                         !.afterFail = @ \/ io.failed,
                                         !.failed = @ \/ (w.ret = 0)]
           /\ frames' = frames - fc
    /\ UNCHANGED <<pc, rest, argc, file, options, nsf, config, songIndex,
                   framesbackup, status>>

\* one iteration of while(frames): Render, pack_frames, write_frames; the
\* result of write_frames is not looked at
RenderStep ==
    /\ pc = "render"
    /\ frames # 0
    /\ LET fc == Min(frames, kFramesToBuffer)
       IN  /\ player' = PlayerRender(player, fc)
           /\ \E written \in {0, fc} :
                 LET w == write_frames(written, fc, options.channels)
                 IN  /\ out' = [out EXCEPT !.payload = @ + w.bytes]
                     /\ io' = [io EXCEPT !.renders = @ + 1,
                                         !.requested = @ + fc,
                                         !.afterFail = @ \/ io.failed,
                                         !.failed = @ \/ (w.ret = 0)]
           /\ frames' = frames - fc
    /\ UNCHANGED <<pc, rest, argc, file, options, nsf, config, songIndex,
                   framesbackup, status>>

\* a variant of Finish that returns without fclose(f)
Finish_NoClose ==
    /\ pc = "render"
    /\ frames = 0
    /\ Exit(EXIT_SUCCESS)
    /\ UNCHANGED <<rest, argc, file, options, nsf, config, player, songIndex,
                   frames, framesbackup, out, io>>

\* fclose(f); return EXIT_SUCCESS;
Finish ==
    /\ pc = "render"
    /\ frames = 0
    /\ out' = [out EXCEPT !.state = "closed"]
    /\ Exit(EXIT_SUCCESS)
    /\ UNCHANGED <<rest, argc, file, options, nsf, config, player, songIndex,
                   frames, framesbackup, io>>

----------------------------------------------------------------------------
(* Specifications *)

Next ==
    \/ ParseOption
    \/ ParseEnd
    \/ LoadFile
    \/ DumpInfo
    \/ ResolveTrack
    \/ ConfigureDetect
    \/ PlayerLoad
    \/ SkipStep
    \/ DetectEnd
    \/ Reconfigure
    \/ OpenOutput
    \/ WriteHeader
    \/ RenderStep
    \/ Finish

\* command lines of scalar options and flags
Spec == Init /\ [][Next]_vars

\* command lines of channel directives
SpecMask == InitMask /\ [][Next]_vars

\* command lines and files for the runs on which the two loops are followed
\* to their end
LoopArgvs ==
    {<<>>, <<Tok("y", 0)>>, <<Tok("h", 0)>>}
    \cup {<<Tok("s", x)>> : x \in RateChoices}
    \cup {<<Tok("y", 0), Tok("s", x)>> : x \in RateChoices}
LoopFiles ==
    {f \in Files : f.song = 0}
InitLoop == InitOf(LoopArgvs, LoopFiles, DefaultLengths, DefaultFades,
                   DefaultRates)

\* main() is one thread of blocking calls: a loop iteration that can run
\* does run, and so does the statement after a loop that has ended
SpecFair ==
    /\ InitLoop /\ [][Next]_vars
    /\ WF_vars(SkipStep) /\ WF_vars(DetectEnd)
    /\ WF_vars(RenderStep) /\ WF_vars(Finish)

----------------------------------------------------------------------------
(* write_wav_header on frame counts too large to render in the model *)

\* frame counts up to 2^31 - 1
WideFrames == {k * 268435456 + d : k \in 0..7, d \in {0, 1, 4095}}
              \cup {2147483647}

\* main() about to call write_wav_header after
\*   nsf2wav -y -l <frames> -f 0 -s 1000 [-c 2] in.nsf out.wav
\* on a file with no embedded times: 1000 frames per second for <frames> ms
InitHdr ==
    /\ pc = "header"
    /\ rest = <<>>
    /\ argc = 2
    /\ file \in {f \in MaskFiles : f.loadable}
    /\ \E n \in WideFrames, c \in {1, 2} :
          /\ options = [length_ms |-> n, fade_ms |-> 0, channels |-> c,
                        samplerate |-> kMillisPerSecond * RateDen,
                        track |-> 1, quiet |-> FALSE, mask |-> {},
                        mute |-> {}, trigger |-> FALSE, lengthForce |-> TRUE]
          /\ frames = n
    /\ nsf = [loaded |-> TRUE, playlist_mode |-> file.playlist_mode,
              song |-> file.song, time_in_ms |-> file.time_in_ms,
              fade_in_ms |-> file.fade_in_ms, entry |-> file.entry,
              fadeTime |-> file.fadeTime, loop_num |-> 0]
    /\ config = FinalConfig(FirstConfig(<<>>, options), options)
    /\ player = [loaded |-> TRUE, configs |-> 2, resets |-> 2,
                 fading |-> FALSE, playtime_detected |-> FALSE,
                 total_render |-> 0]
    /\ songIndex = 0
    /\ framesbackup = 0
    /\ out = [state |-> "open", header |-> <<>>, payload |-> 0]
    /\ io = [skips |-> 0, skipped |-> 0, renders |-> 0, requested |-> 0,
             headers |-> 0, declared |-> 0,
             failed |-> FALSE, afterFail |-> FALSE]
    /\ status = -1

NextHdr == WriteHeader

\* the header of long outputs
SpecHdr == InitHdr /\ [][NextHdr]_vars

----------------------------------------------------------------------------
(* Properties *)

\* main() is between the resolution of the frame count and the first write
BeforeRender == pc \in {"reconf", "open", "header"}

\* the step of ParseOptions that handles the option o
Handles(o) == pc = "parse" /\ rest # <<>> /\ Head(rest).op = o

\* a 32-bit little-endian field of the header, as two 16-bit limbs
HeaderField(h, at) == <<h[at] + 256 * h[at + 1], h[at + 2] + 256 * h[at + 3]>>

\* the same field as a number (fields below 2^31 only)
HeaderNumber(h, at) ==
    h[at] + 256 * h[at + 1] + 65536 * h[at + 2] + 16777216 * h[at + 3]

\* a 32-bit value widened to five limbs
Widen(x) == x \o <<0, 0, 0>>

\* C1: with force_length set, the frame count used for the header and the
\* render loop is floor((length_ms + fade_ms) * sample_rate / 1000).
C1_ForcedFrameCount ==
    (options.lengthForce /\ BeforeRender) =>
        frames = ((options.length_ms + options.fade_ms) * options.samplerate)
                     \div (RateDen * kMillisPerSecond)

\* C2: a header written in full has 44 bytes, its data length field is
\* total_frame_count * channel_count * 2 without wrap-around, and its RIFF
\* size field is that length + 36.
C2_HeaderSizes ==
    (pc = "render" /\ io.renders = 0 /\ ~io.failed) =>
        LET payload == MulAdd(ToLimbs(frames, 5),
                              options.channels * SizeofInt16, 0)
        IN  /\ Len(out.header) = 44
            /\ Widen(HeaderField(out.header, 41)) = payload
            /\ Widen(HeaderField(out.header, 5)) = MulAdd(payload, 1, 36)

\* C3: on a run that reaches Done the file holds a 44-byte header and as many
\* payload bytes as the header declares.
C3_PayloadMatchesHeader ==
    (pc = "exit" /\ out.state = "closed") =>
        /\ Len(out.header) = 44
        /\ out.payload = HeaderNumber(out.header, 41)

\* C4: once a header or payload write has come back short, nothing more is
\* rendered or written and the process ends with the general failure code.
C4_FailFast ==
    io.failed =>
        /\ ~io.afterFail
        /\ pc = "exit" => status = EXIT_FAILURE

\* C5: when the engine reports a detected loop after the skip phase, with K
\* frames rendered and fade time T, the resolved frame count is
\* K + floor(T * sample_rate / 1000) whatever the naive candidate was, and it
\* is not changed before the header is written.
C5_DetectedFrameCount ==
    [][/\ (pc = "skip" /\ pc' = "reconf" /\ player.playtime_detected) =>
            frames' = player.total_render
                      + (nsf.fadeTime * options.samplerate)
                            \div (RateDen * kMillisPerSecond)
       /\ BeforeRender => frames' = frames]_vars

\* C5 witness: a loop was detected after fewer frames than the naive
\* candidate, and the resolved count differs from the candidate
C5_Witness ==
    /\ pc = "reconf"
    /\ ~options.lengthForce
    /\ player.playtime_detected
    /\ player.total_render > 0
    /\ player.total_render < framesbackup
    /\ frames # framesbackup
    /\ frames > player.total_render

\* C6: when the engine reports no detected loop after the skip phase, the
\* resolved frame count is the naive candidate, whatever the skip loop
\* consumed.
C6_FallbackFrameCount ==
    [][(pc = "skip" /\ pc' = "reconf" /\ ~player.playtime_detected) =>
          frames' = NaiveFrames(options.length_ms, options.fade_ms,
                                options.samplerate)]_vars

\* C6 witness: the whole budget was skipped, nothing was detected, and the
\* candidate is back in frames
C6_Witness ==
    /\ pc = "reconf"
    /\ ~options.lengthForce
    /\ ~player.playtime_detected
    /\ io.skipped > kFramesToBuffer
    /\ frames = io.skipped

\* C7, as stated: invert() replaces the mask by its complement over the full
\* 64-bit width.
C7_InvertFullWidth ==
    [][Handles("r") => options'.mask = (0..(MaskBits - 1)) \ options.mask]_vars

\* C7, amended: invert() flips bits 0..31 of the mask and leaves bits 32..63
\* as they are; inverting twice restores the mask.
C7_InvertLow32 ==
    /\ [][Handles("r") =>
            \A b \in 0..(MaskBits - 1) :
               (b \in options'.mask) <=>
                  (IF b < InvertBits THEN b \notin options.mask
                                     ELSE b \in options.mask)]_vars
    /\ [](MaskInvert(MaskInvert(options.mask)) = options.mask)

\* C7 witness: select(0); invert() has left the channels 1..31 in the mask
C7_Witness ==
    /\ pc = "parse"
    /\ options.mask = 1..31
    /\ options.mute = {}

\* C8: select(i) sets bit i of the mask and no other bit, for i in 0..31.
C8_SelectOneBit ==
    [][Handles("m") =>
          options'.mask = options.mask \cup {Head(rest).arg}]_vars

\* C9: commit_as_mute() copies the mask into mute and empties the mask; no
\* other step changes mute.
C9_CommitMute ==
    [][IF Handles("u")
       THEN options'.mute = options.mask /\ options'.mask = {}
       ELSE options'.mute = options.mute]_vars

\* C9 witness: select(0); commit_as_mute(); select(3)
C9_Witness ==
    /\ options.mute = {0}
    /\ options.mask = {3}

\* C10: in the configuration of the real render pass, channel i has volume 0
\* exactly if bit i of mute is set and 128 otherwise, and MASK is the mask.
C10_VolumeTable ==
    "VOL" \in DOMAIN config =>
        /\ \A i \in 0..(VolChannels - 1) :
              config["VOL"][i] = (IF i \in options.mute THEN 0 ELSE FullVolume)
        /\ config["MASK"] = options.mask


\* C11: the header is written once, before any payload byte and after the
\* skip phase; after that no skip is made, the header is not written again
\* and the frame count it declares stays the total of the render loop.
C11_HeaderOnce ==
    /\ [](io.headers <= 1)
    /\ [](out.payload > 0 \/ io.renders > 0 => io.headers = 1)
    /\ [][io'.headers # io.headers =>
             /\ pc = "header" /\ pc' = "render"
             /\ io.renders = 0 /\ out.payload = 0
             /\ io'.declared = frames]_vars
    /\ [][io.headers = 1 =>
             /\ io'.skips = io.skips
             /\ out'.header = out.header
             /\ io'.declared = io.declared
             /\ frames' + io'.requested = io.declared]_vars

\* C11 witness: a run with a skip phase has written the header and then
\* payload
C11_Witness ==
    /\ io.skips > 0
    /\ io.headers = 1
    /\ Len(out.header) = 44
    /\ out.payload > 0

StatedTime(entryValue, globalValue, current) ==
    IF entryValue >= 0 THEN entryValue
    ELSE IF globalValue >= 0 THEN globalValue
    ELSE current

\* C13, as stated: length_ms and fade_ms are the track's value if it is
\* non-negative, else the source-level value if it is non-negative, else the
\* default, for playlist sources too.
C13_PrecedenceAnySource ==
    [][(pc = "track" /\ pc' = "config") =>
          /\ options'.length_ms =
                StatedTime(nsf.entry.time, nsf.time_in_ms, options.length_ms)
          /\ options'.fade_ms =
                StatedTime(nsf.entry.fade, nsf.fade_in_ms, options.fade_ms)]_vars

\* C13, amended: the track's value is used only when the source is no
\* playlist; for a playlist the precedence starts at the source-level value.
C13_Precedence ==
    [][(pc = "track" /\ pc' = "config") =>
          /\ options'.length_ms =
                StatedTime(IF nsf.playlist_mode THEN -1 ELSE nsf.entry.time,
                           nsf.time_in_ms, options.length_ms)
          /\ options'.fade_ms =
                StatedTime(IF nsf.playlist_mode THEN -1 ELSE nsf.entry.fade,
                           nsf.fade_in_ms, options.fade_ms)]_vars

\* C13 witness: the track's length wins over the source-level length while
\* the fade falls through to the source-level fade
C13_Witness ==
    /\ pc = "config"
    /\ ~nsf.playlist_mode
    /\ nsf.entry.time >= 0 /\ nsf.time_in_ms >= 0
    /\ nsf.entry.fade < 0 /\ nsf.fade_in_ms >= 0
    /\ options.length_ms = nsf.entry.time
    /\ options.fade_ms = nsf.fade_in_ms

\* C14: no run ends with the output file open.
C14_SinkClosed == pc = "exit" => out.state # "open"

\* C14 witness: a run on which a write came back short has ended with the
\* file closed
C14_Witness ==
    /\ pc = "exit"
    /\ io.failed
    /\ out.state = "closed"

\* C15: a run that ends because the source does not load, the track is not
\* valid or the player does not load ends with the general failure code, with
\* no output file opened and no skip or render call made; the file is opened
\* only after all three have succeeded.
C15_NoOutputOnEarlyFailure ==
    /\ [][(pc \in {"load", "track", "pload"} /\ pc' = "exit") =>
             /\ status' = EXIT_FAILURE
             /\ out'.state = "none" /\ out'.header = <<>> /\ out'.payload = 0
             /\ io'.skips = 0 /\ io'.renders = 0]_vars
    /\ [](out.state # "none" => nsf.loaded /\ player.loaded)
    /\ [](pc = "exit" /\ status # EXIT_SUCCESS =>
             out.state = "none" /\ io.renders = 0)

\* C15 witness: the source did not load
C15_Witness ==
    /\ pc = "exit"
    /\ status = EXIT_FAILURE
    /\ ~file.loadable
    /\ ~nsf.loaded
    /\ out.state = "none"


\* C16: the skip phase ends: every skip call asks for min(budget, 4096)
\* frames, between 1 and 4096; the frames asked for never exceed the naive
\* count; no skip call is made when the engine is fading or the budget is
\* zero; the budget never goes below zero.
C16_SkipTerminates ==
    /\ [][io'.skips # io.skips =>
             /\ pc = "skip" /\ frames # 0 /\ ~player.fading
             /\ io'.skips = io.skips + 1
             /\ io'.skipped - io.skipped = Min(frames, kFramesToBuffer)
             /\ io'.skipped - io.skipped \in 1..kFramesToBuffer
             /\ frames' = frames - (io'.skipped - io.skipped)]_vars
    /\ [](pc = "skip" =>
             /\ frames >= 0
             /\ frames + io.skipped = framesbackup)
    /\ [](io.skipped <= framesbackup)
    /\ (pc = "skip" ~> pc = "reconf")

\* C16 witness: the whole budget was skipped in several calls and the engine
\* never reported fading
C16_Witness ==
    /\ pc = "skip"
    /\ io.skips >= 2
    /\ frames = 0
    /\ io.skipped = framesbackup
    /\ ~player.fading

\* C17: the render loop ends with the run done: every iteration asks for
\* min(remaining, 4096) frames, between 1 and 4096; remaining goes down by
\* that and never below zero; at the end the requests sum to the frame count
\* the loop started with, whatever was written.
C17_RenderTerminates ==
    /\ [][io'.renders # io.renders =>
             /\ pc = "render" /\ frames # 0
             /\ io'.renders = io.renders + 1
             /\ io'.requested - io.requested = Min(frames, kFramesToBuffer)
             /\ io'.requested - io.requested \in 1..kFramesToBuffer
             /\ frames' = frames - (io'.requested - io.requested)
             /\ frames' < frames /\ frames' >= 0]_vars
    /\ [](pc = "render" => frames >= 0 /\ frames + io.requested = io.declared)
    /\ [](pc = "exit" /\ out.state = "closed" =>
             frames = 0 /\ io.requested = io.declared)
    /\ (pc = "render" ~> (pc = "exit" /\ status = EXIT_SUCCESS))

\* C17 witness: a total that is no multiple of 4096 was rendered in several
\* calls, one of which wrote nothing
C17_Witness ==
    /\ pc = "exit"
    /\ out.state = "closed"
    /\ io.renders >= 3
    /\ io.declared % kFramesToBuffer # 0
    /\ io.requested = io.declared
    /\ io.failed

\* the value of a setting in c, -1 while it was never assigned
SettingOf(c, k) == IF k \in DOMAIN c THEN c[k] ELSE -1

\* the value of a setting in config
Setting(k) == SettingOf(config, k)

\* C18: skip calls come only in the first session and before any render
\* call; render calls come only after the second SetConfig and the second
\* Reset and start from position 0; after a detection the settings AUTO_DETECT
\* and LOOP_NUM are 0 and stay 0 through the render pass.
C18_SessionOrder ==
    /\ [][io'.skips # io.skips =>
             /\ io.renders = 0
             /\ player.configs = 1 /\ player.resets = 1]_vars
    /\ [][io'.renders # io.renders =>
             /\ player.configs = 2 /\ player.resets = 2
             /\ player.total_render = io.requested
             /\ io'.skips = io.skips]_vars
    /\ [][(pc = "skip" /\ pc' = "reconf" /\ player.playtime_detected) =>
             /\ SettingOf(config', "AUTO_DETECT") = 0
             /\ SettingOf(config', "LOOP_NUM") = 0]_vars
    /\ [][(pc \in {"reconf", "open", "header", "render"}) =>
             /\ SettingOf(config', "AUTO_DETECT") = Setting("AUTO_DETECT")
             /\ SettingOf(config', "LOOP_NUM") = Setting("LOOP_NUM")]_vars

\* C18 witness: a render pass after a skip phase that moved the engine, with
\* detection switched off
C18_Witness ==
    /\ pc = "render"
    /\ io.skips > 0
    /\ io.renders > 0
    /\ player.resets = 2
    /\ player.total_render = io.requested
    /\ Setting("AUTO_DETECT") = 0
    /\ Setting("LOOP_NUM") = 0

\* C19: with lengthForce there is no skip phase: no skip call, no read of the
\* engine's fading and detection reports, and AUTO_DETECT, LOOP_NUM,
\* DETECT_INT and STOP_SEC are never assigned.
C19_ForceSkipsDetection ==
    options.lengthForce =>
        /\ io.skips = 0
        /\ pc # "skip"
        /\ {"AUTO_DETECT", "LOOP_NUM", "DETECT_INT", "STOP_SEC"}
              \cap DOMAIN config = {}
        /\ nsf.loop_num = 0

\* C19 witness: a forced-length run that rendered
C19_Witness ==
    /\ options.lengthForce
    /\ pc = "exit"
    /\ status = EXIT_SUCCESS
    /\ io.renders > 0
    /\ io.skips = 0

\* C20, for the runs on which a loop was detected: STOP_SEC seconds hold at
\* least the frames the render loop is going to ask for.
C20_StopSecCeiling ==
    (BeforeRender /\ Setting("STOP_SEC") >= 0 /\ Setting("AUTO_DETECT") = 0) =>
        Setting("STOP_SEC") * options.samplerate >= frames * RateDen

====
